---- MODULE Spec2Model ----
(***************************************************************************)
(* Model of fragmentation/editable_molecule.py: the R-group finder         *)
(* (RGroupMolObject.find_r_groups), the enumerator                         *)
(* (RGroupMolObject.r_group_enumerator) and the result sink (FileWriter).  *)
(*                                                                         *)
(* A molecule is a sequence of atoms.  A SMARTS pattern of the library     *)
(* matches one atom type; a SMILES fragment parses to a sequence of atoms  *)
(* or does not parse (None).  R_GROUPS, an insertion-ordered dict, is a    *)
(* sequence of [key, value] items with value = <<smiles, smarts>>          *)
(* (value[1], value[2] here are value[0], value[1] of the source).         *)
(***************************************************************************)
EXTENDS Integers, Sequences, FiniteSets, TLC

\* ------------------------------------------------------------------ bounds
MaxLib == 3
MaxAtoms == 2
MaxMols == 4
MaxFrag == 3

\* ------------------------------------------------------- values of the model
None == "None"
Atoms == {"O", "N"}
\* SMILES texts a library entry can carry; "?" does not parse.
Smiles == {"O", "CN", "?"}
\* SMARTS texts a library entry can carry; "[OH]" and "[OX2H]" are two
\* notations of the same hydroxyl pattern.
Smarts == {"[OH]", "[OX2H]", "[NH2]"}
KeyNames == <<"amine", "alcohol", "thiol", "halide", "ether">>

SeqsUpTo(S, n) == UNION {[1..k -> S] : k \in 0..n}

\* ----------------------------------------------------------- rdkit, as used
\* Chem.MolFromSmiles: the parsed fragment, None when the text does not parse.
MolFromSmiles(smiles) ==
    CASE smiles = "O" -> <<"O">>
      [] smiles = "CN" -> <<"C", "N">>
      [] OTHER -> None

\* Chem.MolFromSmarts: the query, here the atom type the pattern matches.
MolFromSmarts(smarts) ==
    CASE smarts = "[OH]" -> "O"
      [] smarts = "[OX2H]" -> "O"
      [] smarts = "[NH2]" -> "N"
      [] OTHER -> None

\* Mol.GetSubstructMatches(pattern, uniquify=False): every occurrence.
GetSubstructMatches(mol, pattern) ==
    SelectSeq([k \in 1..Len(mol) |-> k], LAMBDA k : mol[k] = pattern)

RECURSIVE ReplaceEvery(_, _, _)
ReplaceEvery(mol, query, repl) ==
    IF mol = <<>> THEN <<>>
    ELSE (IF Head(mol) = query THEN repl ELSE <<Head(mol)>>)
         \o ReplaceEvery(Tail(mol), query, repl)

ReplaceAt(mol, k, repl) ==
    SubSeq(mol, 1, k - 1) \o repl \o SubSeq(mol, k + 1, Len(mol))

ReplaceSubstructsFirstOnly(mol, query, repl, replaceAll) ==
    LET matches == GetSubstructMatches(mol, query)
    IN  IF matches = <<>> THEN <<mol>>
        ELSE [m \in 1..Len(matches) |-> ReplaceAt(mol, matches[m], repl)]

\* Chem.ReplaceSubstructs: a tuple of molecules; one molecule with every
\* occurrence replaced under replaceAll, else one molecule per occurrence;
\* the unchanged molecule when the query does not occur.
ReplaceSubstructs(mol, query, repl, replaceAll) ==
    LET matches == GetSubstructMatches(mol, query)
    IN  IF matches = <<>> THEN <<mol>>
        ELSE IF replaceAll THEN <<ReplaceEvery(mol, query, repl)>>
        ELSE [m \in 1..Len(matches) |-> ReplaceAt(mol, matches[m], repl)]

\* ------------------------------------------------------------------- state
VARIABLES
    R_GROUPS,            \* the module-level library
    molecule,            \* self.molecule
    pc,                  \* position of the __main__ pipeline
    li,                  \* find_r_groups: index of the library item visited
    pattern_payload,     \* find_r_groups: the dict under construction
    patterns_found,      \* the mapping handed to r_group_enumerator
    fi,                  \* r_group_enumerator: index of the outer loop
    ci,                  \* r_group_enumerator: index of the inner loop
    modified_molecules,  \* r_group_enumerator: the output list
    origin,              \* history: the (fi, ci) pair each output element came from
    molecules,           \* FileWriter.molecules
    option,              \* FileWriter.option
    fragmentation,       \* FileWriter.fragmentation (0 stands for None)
    wpc,                 \* position of the writer method
    file_count,          \* file_count of the writer method
    files,               \* the writers created so far, in creation order
    mi                   \* index of the molecule the writer loop visits

engine == <<R_GROUPS, molecule, pc, li, pattern_payload, patterns_found,
            fi, ci, modified_molecules, origin>>
sink == <<molecules, option, fragmentation, wpc, file_count, files, mi>>
vars == <<R_GROUPS, molecule, pc, li, pattern_payload, patterns_found,
          fi, ci, modified_molecules, origin,
          molecules, option, fragmentation, wpc, file_count, files, mi>>

\* ------------------------------------------------------------ the library
Item(k, smiles, smarts) == [key |-> k, value |-> <<smiles, smarts>>]

Libraries ==
    UNION {{[i \in 1..n |-> Item(KeyNames[i], sm[i], sa[i])] :
              sm \in [1..n -> Smiles], sa \in [1..n -> Smarts]} : n \in 0..MaxLib}

Keys(d) == {d[i].key : i \in 1..Len(d)}

\* dict.__setitem__ on an insertion-ordered dict.
DictPutFront(d, k, v) ==
    <<[key |-> k, value |-> v]>> \o SelectSeq(d, LAMBDA it : it.key # k)

DictPut(d, k, v) ==
    IF k \in Keys(d)
    THEN [i \in 1..Len(d) |-> IF d[i].key = k THEN [key |-> k, value |-> v] ELSE d[i]]
    ELSE Append(d, [key |-> k, value |-> v])

EngineIdle ==
    /\ R_GROUPS = <<>>
    /\ molecule = <<>>
    /\ pc = "off"
    /\ li = 0
    /\ pattern_payload = <<>>
    /\ patterns_found = <<>>
    /\ fi = 0
    /\ ci = 0
    /\ modified_molecules = <<>>
    /\ origin = <<>>

SinkIdle ==
    /\ molecules = <<>>
    /\ option = "sdf"
    /\ fragmentation = 0
    /\ wpc = "off"
    /\ file_count = 0
    /\ files = <<>>
    /\ mi = 0

Init ==
    /\ R_GROUPS \in Libraries
    /\ molecule \in SeqsUpTo(Atoms, MaxAtoms)
    /\ pc = "start"
    /\ li = 0
    /\ pattern_payload = <<>>
    /\ patterns_found = <<>>
    /\ fi = 0
    /\ ci = 0
    /\ modified_molecules = <<>>
    /\ origin = <<>>
    /\ SinkIdle

\* ----------------------------------------------------------- find_r_groups
find_r_groups_call ==
    /\ pc = "start"
    /\ pc' = "find"
    /\ li' = 1
    /\ pattern_payload' = <<>>
    /\ UNCHANGED <<R_GROUPS, molecule, patterns_found, fi, ci, modified_molecules, origin>>
    /\ UNCHANGED sink

\* the test of line 122: a non-empty tuple of occurrences is truthy
HasMatch(mol, value) ==
    LET pattern == MolFromSmarts(value[2])
    IN  Len(GetSubstructMatches(mol, pattern)) > 0

find_r_groups_step ==
    /\ pc = "find"
    /\ li <= Len(R_GROUPS)
    /\ LET key == R_GROUPS[li].key
           value == R_GROUPS[li].value
       IN  pattern_payload' =
               IF HasMatch(molecule, value)
               THEN DictPut(pattern_payload, key, <<value[1], value[2]>>)
               ELSE pattern_payload
    /\ li' = li + 1
    /\ UNCHANGED <<R_GROUPS, molecule, pc, patterns_found, fi, ci, modified_molecules, origin>>
    /\ UNCHANGED sink

find_r_groups_return ==
    /\ pc = "find"
    /\ li > Len(R_GROUPS)
    /\ patterns_found' = pattern_payload
    /\ pc' = "found"
    /\ UNCHANGED <<R_GROUPS, molecule, li, pattern_payload, fi, ci, modified_molecules, origin>>
    /\ UNCHANGED sink

\* ------------------------------------------------------ r_group_enumerator
r_group_enumerator_call ==
    /\ pc = "found"
    /\ pc' = "enum"
    /\ modified_molecules' = <<>>
    /\ origin' = <<>>
    /\ fi' = 1
    /\ ci' = 1
    /\ UNCHANGED <<R_GROUPS, molecule, li, pattern_payload, patterns_found>>
    /\ UNCHANGED sink

InnerItemsFoundOnly == patterns_found

\* the items the inner loop of line 141 goes through
InnerItems == R_GROUPS

RedundantByKey(key, value, r_functional_group, r_data) ==
    r_functional_group = key

RedundantByQuery(key, value, r_functional_group, r_data) ==
    MolFromSmarts(r_data[2]) = MolFromSmarts(value[2])

NeverRedundant(key, value, r_functional_group, r_data) == FALSE

\* the test of line 143: string equality of the two pattern texts
Redundant(key, value, r_functional_group, r_data) ==
    r_data[2] = value[2]

ListPrepend(list, x) == <<x>> \o list

\* list.append
ListAppend(list, x) == Append(list, x)

InPair ==
    /\ pc = "enum"
    /\ fi <= Len(patterns_found)
    /\ ci <= Len(InnerItems)

r_group_enumerator_skip ==
    /\ InPair
    /\ Redundant(patterns_found[fi].key, patterns_found[fi].value,
                 InnerItems[ci].key, InnerItems[ci].value)
    /\ ci' = ci + 1
    /\ UNCHANGED <<R_GROUPS, molecule, pc, li, pattern_payload, patterns_found,
                   fi, modified_molecules, origin>>
    /\ UNCHANGED sink

r_group_enumerator_replace_in_place ==
    /\ InPair
    /\ ~Redundant(patterns_found[fi].key, patterns_found[fi].value,
                  InnerItems[ci].key, InnerItems[ci].value)
    /\ MolFromSmiles(InnerItems[ci].value[1]) # None
    /\ LET smarts_mol == MolFromSmarts(patterns_found[fi].value[2])
           modified_molecule ==
               ReplaceSubstructs(molecule, smarts_mol,
                                 MolFromSmiles(InnerItems[ci].value[1]), TRUE)
       IN  /\ molecule' = modified_molecule[1]
           /\ modified_molecules' = ListAppend(modified_molecules, modified_molecule[1])
    /\ origin' = Append(origin, <<fi, ci>>)
    /\ ci' = ci + 1
    /\ UNCHANGED <<R_GROUPS, pc, li, pattern_payload, patterns_found, fi>>
    /\ UNCHANGED sink

\* lines 146-149: the rewrite and the append of its first result
r_group_enumerator_replace ==
    /\ InPair
    /\ ~Redundant(patterns_found[fi].key, patterns_found[fi].value,
                  InnerItems[ci].key, InnerItems[ci].value)
    /\ MolFromSmiles(InnerItems[ci].value[1]) # None
    /\ LET smarts_mol == MolFromSmarts(patterns_found[fi].value[2])
           modified_molecule ==
               ReplaceSubstructs(molecule, smarts_mol,
                                 MolFromSmiles(InnerItems[ci].value[1]), TRUE)
       IN  modified_molecules' = ListAppend(modified_molecules, modified_molecule[1])
    /\ origin' = Append(origin, <<fi, ci>>)
    /\ ci' = ci + 1
    /\ UNCHANGED <<R_GROUPS, molecule, pc, li, pattern_payload, patterns_found, fi>>
    /\ UNCHANGED sink

\* lines 146-147 with a fragment that did not parse: ReplaceSubstructs raises,
\* nothing catches it, the call is left without a result
r_group_enumerator_raise ==
    /\ InPair
    /\ ~Redundant(patterns_found[fi].key, patterns_found[fi].value,
                  InnerItems[ci].key, InnerItems[ci].value)
    /\ MolFromSmiles(InnerItems[ci].value[1]) = None
    /\ pc' = "raised"
    /\ UNCHANGED <<R_GROUPS, molecule, li, pattern_payload, patterns_found,
                   fi, ci, modified_molecules, origin>>
    /\ UNCHANGED sink

\* the inner loop is exhausted: the outer loop takes its next item
r_group_enumerator_next_found ==
    /\ pc = "enum"
    /\ fi <= Len(patterns_found)
    /\ ci > Len(InnerItems)
    /\ fi' = fi + 1
    /\ ci' = 1
    /\ UNCHANGED <<R_GROUPS, molecule, pc, li, pattern_payload, patterns_found,
                   modified_molecules, origin>>
    /\ UNCHANGED sink

r_group_enumerator_return ==
    /\ pc = "enum"
    /\ fi > Len(patterns_found)
    /\ pc' = "done"
    /\ UNCHANGED <<R_GROUPS, molecule, li, pattern_payload, patterns_found,
                   fi, ci, modified_molecules, origin>>
    /\ UNCHANGED sink

Next ==
    \/ find_r_groups_call
    \/ find_r_groups_step
    \/ find_r_groups_return
    \/ r_group_enumerator_call
    \/ r_group_enumerator_skip
    \/ r_group_enumerator_replace
    \/ r_group_enumerator_raise
    \/ r_group_enumerator_next_found
    \/ r_group_enumerator_return

Spec == Init /\ [][Next]_vars

\* ---------------------------------------------------------------- FileWriter
\* The molecules handed to the sink: any list of derivative molecules.
SinkMolecules == {<<"N">>, <<"C", "N">>}

InitSink ==
    /\ EngineIdle
    /\ molecules \in SeqsUpTo(SinkMolecules, MaxMols)
    /\ option \in {"sdf", "txt"}
    /\ fragmentation \in 0..MaxFrag
    /\ wpc = "init"
    /\ file_count = 0
    /\ files = <<>>
    /\ mi = 0

\* Chem.SDWriter(path) / Chem.SmilesWriter(path): a new, open, empty writer.
\* number 0 stands for the path without a number.
NewWriter(ext, number) == [ext |-> ext, number |-> number, mols |-> <<>>, open |-> TRUE]

\* the writer variable of the method: the writer created last
writer == files[Len(files)]

NumMols(w) == Len(w.mols)

WriterWrite(fs, m) ==
    [fs EXCEPT ![Len(fs)].mols = Append(@, m)]

\* writer.close()
WriterClose(fs) ==
    [fs EXCEPT ![Len(fs)].open = FALSE]

BatchOverfull(w) == NumMols(w) > fragmentation

\* the test of lines 197 and 225
BatchFull(w) == NumMols(w) = fragmentation

\* lines 187-188, 194-195 (sdf) and 215-216, 222-223 (txt)
OpenFirst(ext) ==
    /\ wpc = "init"
    /\ IF fragmentation = 0
       THEN /\ files' = <<NewWriter(ext, 0)>>
            /\ file_count' = file_count
       ELSE /\ file_count' = 1
            /\ files' = <<NewWriter(ext, 1)>>
    /\ mi' = 1
    /\ wpc' = "loop"
    /\ UNCHANGED <<molecules, option, fragmentation>>
    /\ UNCHANGED engine

\* one iteration of the loop that does not start a new file
WriteOne ==
    /\ wpc = "loop"
    /\ mi <= Len(molecules)
    /\ ~(fragmentation # 0 /\ BatchFull(writer))
    /\ files' = WriterWrite(files, molecules[mi])
    /\ mi' = mi + 1
    /\ UNCHANGED <<molecules, option, fragmentation, wpc, file_count>>
    /\ UNCHANGED engine

\* one iteration of the loop that closes the full file and starts the next
RotateAndWrite(ext) ==
    /\ wpc = "loop"
    /\ mi <= Len(molecules)
    /\ fragmentation # 0
    /\ BatchFull(writer)
    /\ file_count' = file_count + 1
    /\ files' = WriterWrite(Append(WriterClose(files), NewWriter(ext, file_count + 1)),
                            molecules[mi])
    /\ mi' = mi + 1
    /\ UNCHANGED <<molecules, option, fragmentation, wpc>>
    /\ UNCHANGED engine

\* the writer.close() after the loop
CloseLast ==
    /\ wpc = "loop"
    /\ mi > Len(molecules)
    /\ files' = WriterClose(files)
    /\ wpc' = "done"
    /\ UNCHANGED <<molecules, option, fragmentation, file_count, mi>>
    /\ UNCHANGED engine

sdf_writer_open == option = "sdf" /\ OpenFirst("sdf")
sdf_writer_write == option = "sdf" /\ WriteOne
sdf_writer_rotate == option = "sdf" /\ RotateAndWrite("sdf")
sdf_writer_close == option = "sdf" /\ CloseLast

txt_writer_open == option = "txt" /\ OpenFirst("txt")
txt_writer_write == option = "txt" /\ WriteOne
txt_writer_rotate == option = "txt" /\ RotateAndWrite("txt")
txt_writer_close == option = "txt" /\ CloseLast

NextSink ==
    \/ sdf_writer_open
    \/ sdf_writer_write
    \/ sdf_writer_rotate
    \/ sdf_writer_close
    \/ txt_writer_open
    \/ txt_writer_write
    \/ txt_writer_rotate
    \/ txt_writer_close

SpecSink == InitSink /\ [][NextSink]_vars

\* ==================================================================== claims
Text(item) == item.value[2]

Fragment(item) == item.value[1]

\* the number of occurrences of a pattern text in a molecule
Occurrences(mol, text) ==
    Cardinality({k \in 1..Len(mol) : mol[k] = MolFromSmarts(text)})

Returned == pc = "done"

RECURSIVE Sum(_, _)
Sum(F, n) == IF n = 0 THEN 0 ELSE F[n] + Sum(F, n - 1)

\* the number of library entries whose pattern text equals that of found entry i
SameText(i) ==
    Cardinality({j \in 1..Len(R_GROUPS) : Text(R_GROUPS[j]) = Text(patterns_found[i])})

DistinctTexts == {Text(R_GROUPS[j]) : j \in 1..Len(R_GROUPS)}

\* how many output elements the pair (found entry i, library entry j) contributed
Contribution(i, j) ==
    Cardinality({p \in 1..Len(origin) : origin[p] = <<i, j>>})

\* --- C1 -----------------------------------------------------------------
EndToEndScenario ==
    /\ Len(R_GROUPS) = 2
    /\ R_GROUPS[1].key = "amine"
    /\ R_GROUPS[2].key = "alcohol"
    /\ Text(R_GROUPS[1]) = Text(R_GROUPS[2])
    /\ Occurrences(molecule, Text(R_GROUPS[1])) >= 1

\* C1 as stated: in the end-to-end scenario (a library of exactly the two
\* entries amine and alcohol with the same pattern text, occurring in the
\* base molecule) both entries are found and the enumerator returns exactly
\* 1 derivative.
C1_OneDerivative ==
    (EndToEndScenario /\ Returned) =>
        /\ [i \in 1..Len(patterns_found) |-> patterns_found[i].key] = <<"amine", "alcohol">>
        /\ Len(modified_molecules) = 1

\* C1 as amended: in the end-to-end scenario both entries are found and the
\* enumerator returns no derivative at all, every (found, library) pair
\* being skipped because all pattern texts are equal.
C1_NoDerivative ==
    (EndToEndScenario /\ Returned) =>
        /\ [i \in 1..Len(patterns_found) |-> patterns_found[i].key] = <<"amine", "alcohol">>
        /\ modified_molecules = <<>>

C1_Witness ==
    /\ EndToEndScenario
    /\ Returned
    /\ Fragment(R_GROUPS[1]) = "CN"
    /\ Fragment(R_GROUPS[2]) = "O"
    /\ Len(patterns_found) = 2

\* --- C2 -----------------------------------------------------------------
\* C2: when the enumerator has returned, every pair (found entry, library
\* entry) has contributed exactly one derivative if the two pattern texts
\* differ and none if they are string-equal, whatever the keys of the two
\* entries are.
C2_SkipRule ==
    Returned =>
        /\ Len(origin) = Len(modified_molecules)
        /\ \A i \in 1..Len(patterns_found) : \A j \in 1..Len(R_GROUPS) :
               Contribution(i, j) =
                   IF Text(R_GROUPS[j]) # Text(patterns_found[i]) THEN 1 ELSE 0

\* a found entry, another library entry sharing its text (skipped), and an
\* entry with the same query under a different text (not skipped)
C2_Witness ==
    /\ Returned
    /\ \E i \in 1..Len(patterns_found) : \E j, h \in 1..Len(R_GROUPS) :
           /\ R_GROUPS[j].key # patterns_found[i].key
           /\ Text(R_GROUPS[j]) = Text(patterns_found[i])
           /\ Contribution(i, j) = 0
           /\ Text(R_GROUPS[h]) # Text(patterns_found[i])
           /\ MolFromSmarts(Text(R_GROUPS[h])) = MolFromSmarts(Text(patterns_found[i]))
           /\ Contribution(i, h) = 1

\* --- C3 -----------------------------------------------------------------
\* C3: when the enumerator has returned, the length of its output is the sum
\* over the found entries f of (library size minus the number of library
\* entries whose pattern text equals f's); with all library texts distinct
\* and k found entries that is k * (m - 1).
C3_Cardinality ==
    Returned =>
        LET m == Len(R_GROUPS)
            k == Len(patterns_found)
        IN  /\ Len(modified_molecules) = Sum([i \in 1..k |-> m - SameText(i)], k)
            /\ (Cardinality(DistinctTexts) = m) => Len(modified_molecules) = k * (m - 1)

\* found = {A}, library = {A, B, C}, all texts distinct: output length 2
C3_Witness ==
    /\ Returned
    /\ Len(R_GROUPS) = 3
    /\ Cardinality(DistinctTexts) = 3
    /\ Len(patterns_found) = 1
    /\ Len(modified_molecules) = 2

\* --- C4 -----------------------------------------------------------------
\* C4: when the enumerator has returned, its output is non-empty if there is
\* a found entry and the library holds at least two distinct pattern texts,
\* and it is the empty sequence in every other case.
C4_NonEmptiness ==
    Returned =>
        IF Len(patterns_found) >= 1 /\ Cardinality(DistinctTexts) >= 2
        THEN modified_molecules # <<>>
        ELSE modified_molecules = <<>>

\* a found entry in a library of several entries that all share one text
C4_Witness ==
    /\ Returned
    /\ Len(patterns_found) >= 1
    /\ Len(R_GROUPS) >= 2
    /\ Cardinality(DistinctTexts) = 1
    /\ modified_molecules = <<>>

\* --- C5 -----------------------------------------------------------------
FindReturned == pc \in {"found", "enum", "done", "raised"}

\* C5: what find_r_groups returns is the library restricted to the entries
\* whose pattern has at least one occurrence in the molecule, each under its
\* library key with its library contents, in library insertion order.
C5_FoundExact ==
    FindReturned =>
        patterns_found =
            SelectSeq(R_GROUPS, LAMBDA item : Occurrences(molecule, Text(item)) >= 1)

\* a dropped entry between two retained ones
C5_Witness ==
    /\ pc = "found"
    /\ Len(R_GROUPS) = 3
    /\ Occurrences(molecule, Text(R_GROUPS[1])) >= 1
    /\ Occurrences(molecule, Text(R_GROUPS[2])) = 0
    /\ Occurrences(molecule, Text(R_GROUPS[3])) >= 1
    /\ Len(patterns_found) = 2

\* --- C6 -----------------------------------------------------------------
\* the pairs that are not skipped, in (found order, library order)
RECURSIVE Visit(_, _)
Visit(i, j) ==
    IF i > Len(patterns_found) THEN <<>>
    ELSE IF j > Len(R_GROUPS) THEN Visit(i + 1, 1)
    ELSE (IF Text(R_GROUPS[j]) # Text(patterns_found[i]) THEN <<(<<i, j>>)>> ELSE <<>>)
         \o Visit(i, j + 1)

DerivativeOf(pair) ==
    ReplaceSubstructs(molecule, MolFromSmarts(Text(patterns_found[pair[1]])),
                      MolFromSmiles(Fragment(R_GROUPS[pair[2]])), TRUE)[1]

\* C6: when the enumerator has returned, its output is the derivatives of
\* the non-skipped pairs in visitation order: found order first, library
\* insertion order within one found entry.
C6_VisitationOrder ==
    Returned =>
        LET V == Visit(1, 1)
        IN  modified_molecules = [p \in 1..Len(V) |-> DerivativeOf(V[p])]

\* two found entries, at least three derivatives, not all alike
C6_Witness ==
    /\ Returned
    /\ Len(patterns_found) >= 2
    /\ Len(modified_molecules) >= 3
    /\ modified_molecules[1] # modified_molecules[Len(modified_molecules)]

\* --- C7 -----------------------------------------------------------------
\* d is mol with every occurrence of query replaced by the fragment repl
AllReplaced(d, mol, query, repl) ==
    LET Before(k) == Cardinality({h \in 1..(k - 1) : mol[h] = query})
        Off(k) == (k - 1) + Before(k) * (Len(repl) - 1)
    IN  /\ Len(d) = Len(mol) + Before(Len(mol) + 1) * (Len(repl) - 1)
        /\ \A k \in 1..Len(mol) :
               IF mol[k] = query
               THEN SubSeq(d, Off(k) + 1, Off(k) + Len(repl)) = repl
               ELSE d[Off(k) + 1] = mol[k]

\* C7: every derivative in the output is the base molecule with all the
\* occurrences of the found pattern replaced by the candidate's fragment, and
\* a pair never contributes more than one derivative, however many
\* occurrences its pattern has.
C7_ReplaceAll ==
    /\ Len(origin) = Len(modified_molecules)
    /\ \A p \in 1..Len(origin) :
           /\ AllReplaced(modified_molecules[p], molecule,
                          MolFromSmarts(Text(patterns_found[origin[p][1]])),
                          MolFromSmiles(Fragment(R_GROUPS[origin[p][2]])))
           /\ Contribution(origin[p][1], origin[p][2]) = 1

\* a derivative for a pattern with two occurrences
C7_Witness ==
    /\ Returned
    /\ \E p \in 1..Len(origin) :
           Occurrences(molecule, Text(patterns_found[origin[p][1]])) >= 2

\* --- C8 -----------------------------------------------------------------
\* C8: when the rewrite of a pair fails, the enumerator skips the pair and
\* goes on with the next library entry, keeping the output built so far.
C8_FailureSkipsPair ==
    [][(/\ pc = "enum"
        /\ fi <= Len(patterns_found)
        /\ ci <= Len(R_GROUPS)
        /\ Text(R_GROUPS[ci]) # Text(patterns_found[fi])
        /\ MolFromSmiles(Fragment(R_GROUPS[ci])) = None)
       => (/\ pc' = "enum"
           /\ fi' = fi
           /\ ci' = ci + 1
           /\ modified_molecules' = modified_molecules)]_vars

\* --- C9 -----------------------------------------------------------------
\* C9: no step of find_r_groups or r_group_enumerator changes the library or
\* the base molecule, and no step of r_group_enumerator changes the found
\* mapping it was given.
C9_ReadOnly ==
    [][/\ R_GROUPS' = R_GROUPS
       /\ molecule' = molecule
       /\ (pc = "enum" => patterns_found' = patterns_found)]_vars

C9_Witness ==
    /\ Returned
    /\ Len(patterns_found) >= 1
    /\ Len(modified_molecules) >= 2
    /\ \E p \in 1..Len(modified_molecules) : modified_molecules[p] # molecule

\* --- C10 ----------------------------------------------------------------
RECURSIVE Concat(_, _)
Concat(fs, n) == IF n = 0 THEN <<>> ELSE Concat(fs, n - 1) \o fs[n].mols

Ext == IF option = "sdf" THEN "sdf" ELSE "txt"

\* C10: with a batch size n >= 1 the files are numbered 1, 2, ... in creation
\* order, only the file created last can be open, and once the writer has
\* finished every file is closed, every file but the last holds exactly n
\* molecules, the last holds 1 to n (0 only when there is no molecule at
\* all), and the files put end to end are the input sequence.
C10_Batching ==
    (fragmentation >= 1 /\ wpc \in {"loop", "done"}) =>
        /\ \A f \in 1..Len(files) :
               /\ files[f].number = f
               /\ files[f].ext = Ext
               /\ files[f].open => f = Len(files)
               /\ Len(files[f].mols) <= fragmentation
        /\ Concat(files, Len(files)) = SubSeq(molecules, 1, mi - 1)
        /\ wpc = "done" =>
               /\ Len(files) >= 1
               /\ \A f \in 1..Len(files) : ~files[f].open
               /\ \A f \in 1..(Len(files) - 1) : Len(files[f].mols) = fragmentation
               /\ Len(files[Len(files)].mols) >= (IF Len(molecules) = 0 THEN 0 ELSE 1)
               /\ (Len(molecules) = 0) => Len(files) = 1
               /\ Concat(files, Len(files)) = molecules

\* a full file followed by a shorter last one
C10_Witness ==
    /\ wpc = "done"
    /\ fragmentation = 2
    /\ Len(molecules) = 3
    /\ Len(files) = 2
    /\ Len(files[Len(files)].mols) = 1
    /\ molecules[1] # molecules[2]
====
